---- MODULE Spec2Model ----
(***************************************************************************)
(* Model of insert_gaps_in_path (src/vectorize_fast.py, lines 166-250).    *)
(*                                                                         *)
(* Arc lengths are exact rationals with denominator Scale: the integer v   *)
(* stands for the length v / Scale, so that the halvings of the centered   *)
(* gap (total_length / 2.0, gap_length / 2.0) are exact.  Curve parameters *)
(* t are fractions [num, den], compared by cross multiplication.           *)
(* path.cropped is a call into the geometry library: it returns a          *)
(* non-empty curve ("ok"), an empty curve ("empty") or raises ("fail").    *)
(***************************************************************************)
EXTENDS Integers, Sequences, FiniteSets

\* Bounds of the model, in whole length units.
MaxLen == 6
MaxGap == 3
MaxSpacing == 4

\* Denominator of the length representation (the 2.0 of lines 190-192).
Scale == 2

VARIABLES path_len, total_length, gap_length, gap_spacing,
          gap_positions, pos, segments_out, segment_start, gap_index,
          crops, result, pc

vars == <<path_len, total_length, gap_length, gap_spacing,
          gap_positions, pos, segments_out, segment_start, gap_index,
          crops, result, pc>>

----------------------------------------------------------------------------
\* Numbers

Max(a, b) == IF a < b THEN b ELSE a
Min(a, b) == IF b < a THEN b ELSE a
Half(x) == x \div Scale

Div(x, y) == [num |-> x, den |-> y]
Zero == [num |-> 0, den |-> 1]
One == [num |-> 1, den |-> 1]
FLess(a, b) == a.num * b.den < b.num * a.den
FMax(a, b) == IF FLess(a, b) THEN b ELSE a
FMin(a, b) == IF FLess(b, a) THEN b ELSE a
Clamp01(t) == FMax(Zero, FMin(One, t))

\* The arc-length position (in 1/Scale units) of parameter t on a curve of
\* length tl.
ArcPos(t, tl) == (t.num * tl) \div t.den

----------------------------------------------------------------------------
\* The pieces of insert_gaps_in_path

\* The path as an element of a returned list.
PathItem == [kind |-> "path", t0 |-> Zero, t1 |-> One]

CenteredGapStartNotHalved(tl, gl) == Max(0, Half(tl) - gl)
CenteredGapStart(tl, gl) == Max(0, Half(tl) - Half(gl))
CenteredGapEnd(tl, gl) == Min(tl, Half(tl) + Half(gl))

RecordCenteredAlways(gs, ge, tl) == TRUE
RecordCentered(gs, ge, tl) == gs > 0 \/ ge < tl

PeriodicStartAtZero(sp) == 0
PeriodicStart(sp) == sp

LoopGuardInclusive(p, tl) == p <= tl
LoopGuard(p, tl) == p < tl

PeriodicGapEndUnclamped(p, gl, tl) == p + gl
PeriodicGapEndDoubled(p, gl, tl) == Min(p + gl + gl, tl)
PeriodicGapEnd(p, gl, tl) == Min(p + gl, tl)

Gap(gs, ge) == [gap_start |-> gs, gap_end |-> ge]

SegGuard(ss, gs) == ss < gs
TRangeValid(t_start, t_end) == FLess(t_start, t_end)

CroppedSwapped(t_start, t_end) == [kind |-> "seg", t0 |-> t_end, t1 |-> t_start]
Cropped(t_start, t_end) == [kind |-> "seg", t0 |-> t_start, t1 |-> t_end]

CropOutcomes == {"ok", "empty", "fail"}

CaughtNever(outcome) == FALSE
Caught(outcome) == TRUE

NextSegmentStartAtGapStart(gs, ge) == gs
NextSegmentStart(gs, ge) == ge

FinalResultNoFallback(segs, p) == segs
FinalResult(segs, p) == IF segs # <<>> THEN segs ELSE <<p>>

\* One crop attempt (lines 226-231 and 243-248): the attempt is logged in
\* crops; a non-empty curve is appended, an empty one is not, an exception is
\* caught and the segment skipped.
CropAttempt(t_start, t_end, outcome, nextpc) ==
    /\ crops' = Append(crops, [seg |-> Cropped(t_start, t_end), outcome |-> outcome])
    /\ IF outcome = "ok"
         THEN /\ segments_out' = Append(segments_out, Cropped(t_start, t_end))
              /\ pc' = nextpc
         ELSE /\ segments_out' = segments_out
              /\ pc' = IF outcome = "fail" /\ ~Caught(outcome) THEN "raised" ELSE nextpc

----------------------------------------------------------------------------
\* Initial states: a call with a path, gap_length > 0 and gap_spacing > 0.
\* A path without primitives has length 0.

Init ==
    /\ path_len \in {0, 1}
    /\ total_length \in {Scale * n : n \in 0..MaxLen}
    /\ path_len = 0 => total_length = 0
    /\ gap_length \in {Scale * n : n \in 1..MaxGap}
    /\ gap_spacing \in {Scale * n : n \in 1..MaxSpacing}
    /\ gap_positions = <<>>
    /\ pos = 0
    /\ segments_out = <<>>
    /\ segment_start = 0
    /\ gap_index = 1
    /\ crops = <<>>
    /\ result = <<>>
    /\ pc = "start"

\* lines 178-179
ReturnEmpty ==
    /\ pc = "start"
    /\ path_len = 0
    /\ result' = <<>>
    /\ pc' = "done"
    /\ UNCHANGED <<path_len, total_length, gap_length, gap_spacing,
                   gap_positions, pos, segments_out, segment_start, gap_index, crops>>

\* lines 181-183
ReturnZeroLength ==
    /\ pc = "start"
    /\ path_len # 0
    /\ total_length = 0
    /\ result' = <<PathItem>>
    /\ pc' = "done"
    /\ UNCHANGED <<path_len, total_length, gap_length, gap_spacing,
                   gap_positions, pos, segments_out, segment_start, gap_index, crops>>

\* lines 186-196
PlaceCentered ==
    /\ pc = "start"
    /\ path_len # 0
    /\ total_length # 0
    /\ total_length < gap_spacing
    /\ LET gs == CenteredGapStart(total_length, gap_length)
           ge == CenteredGapEnd(total_length, gap_length)
       IN  gap_positions' = IF RecordCentered(gs, ge, total_length)
                              THEN <<Gap(gs, ge)>> ELSE <<>>
    /\ pc' = "check"
    /\ UNCHANGED <<path_len, total_length, gap_length, gap_spacing,
                   pos, segments_out, segment_start, gap_index, crops, result>>

\* lines 197-199
StartPeriodic ==
    /\ pc = "start"
    /\ path_len # 0
    /\ total_length # 0
    /\ ~(total_length < gap_spacing)
    /\ pos' = PeriodicStart(gap_spacing)
    /\ pc' = "loop"
    /\ UNCHANGED <<path_len, total_length, gap_length, gap_spacing,
                   gap_positions, segments_out, segment_start, gap_index, crops, result>>

\* lines 200-204, one iteration
LoopStep ==
    /\ pc = "loop"
    /\ LoopGuard(pos, total_length)
    /\ gap_positions' = Append(gap_positions,
                               Gap(pos, PeriodicGapEnd(pos, gap_length, total_length)))
    /\ pos' = pos + gap_spacing
    /\ UNCHANGED <<path_len, total_length, gap_length, gap_spacing,
                   segments_out, segment_start, gap_index, crops, result, pc>>

\* line 200, the guard fails
LoopExit ==
    /\ pc = "loop"
    /\ ~LoopGuard(pos, total_length)
    /\ pc' = "check"
    /\ UNCHANGED <<path_len, total_length, gap_length, gap_spacing,
                   gap_positions, pos, segments_out, segment_start, gap_index, crops, result>>

\* lines 207-208
NoGaps ==
    /\ pc = "check"
    /\ gap_positions = <<>>
    /\ result' = <<PathItem>>
    /\ pc' = "done"
    /\ UNCHANGED <<path_len, total_length, gap_length, gap_spacing,
                   gap_positions, pos, segments_out, segment_start, gap_index, crops>>

\* lines 211-212
StartBuild ==
    /\ pc = "check"
    /\ gap_positions # <<>>
    /\ segments_out' = <<>>
    /\ segment_start' = 0
    /\ gap_index' = 1
    /\ pc' = "build"
    /\ UNCHANGED <<path_len, total_length, gap_length, gap_spacing,
                   gap_positions, pos, crops, result>>

\* lines 214-234, one iteration
BuildStep ==
    /\ pc = "build"
    /\ gap_index <= Len(gap_positions)
    /\ LET gap_start == gap_positions[gap_index].gap_start
           gap_end == gap_positions[gap_index].gap_end
           t_start == Clamp01(Div(segment_start, total_length))
           t_end == Clamp01(Div(gap_start, total_length))
       IN  /\ IF SegGuard(segment_start, gap_start) /\ TRangeValid(t_start, t_end)
                THEN \E outcome \in CropOutcomes :
                         CropAttempt(t_start, t_end, outcome, "build")
                ELSE UNCHANGED <<segments_out, crops, pc>>
           /\ segment_start' = NextSegmentStart(gap_start, gap_end)
    /\ gap_index' = gap_index + 1
    /\ UNCHANGED <<path_len, total_length, gap_length, gap_spacing,
                   gap_positions, pos, result>>

\* line 214, the gaps are exhausted
BuildExit ==
    /\ pc = "build"
    /\ gap_index > Len(gap_positions)
    /\ pc' = "final"
    /\ UNCHANGED <<path_len, total_length, gap_length, gap_spacing,
                   gap_positions, pos, segments_out, segment_start, gap_index,
                   crops, result>>

\* lines 237-248
FinalSegment ==
    /\ pc = "final"
    /\ LET t_start == Clamp01(Div(segment_start, total_length))
       IN  IF segment_start < total_length /\ FLess(t_start, One)
             THEN \E outcome \in CropOutcomes :
                      CropAttempt(t_start, One, outcome, "ret")
             ELSE /\ pc' = "ret"
                  /\ UNCHANGED <<segments_out, crops>>
    /\ UNCHANGED <<path_len, total_length, gap_length, gap_spacing,
                   gap_positions, pos, segment_start, gap_index, result>>

\* line 250
Return ==
    /\ pc = "ret"
    /\ result' = FinalResult(segments_out, PathItem)
    /\ pc' = "done"
    /\ UNCHANGED <<path_len, total_length, gap_length, gap_spacing,
                   gap_positions, pos, segments_out, segment_start, gap_index, crops>>

Next ==
    \/ ReturnEmpty
    \/ ReturnZeroLength
    \/ PlaceCentered
    \/ StartPeriodic
    \/ LoopStep
    \/ LoopExit
    \/ NoGaps
    \/ StartBuild
    \/ BuildStep
    \/ BuildExit
    \/ FinalSegment
    \/ Return

Spec == Init /\ [][Next]_vars

----------------------------------------------------------------------------
\* Vocabulary of the properties

Done == pc = "done"
GapsRecorded == gap_positions # <<>>

\* The arc-length range of a cropped segment.
SegStart(s) == ArcPos(s.t0, total_length)
SegEnd(s) == ArcPos(s.t1, total_length)
ArcLen(s) == SegEnd(s) - SegStart(s)

RECURSIVE SumLen(_)
SumLen(seq) == IF seq = <<>> THEN 0 ELSE ArcLen(Head(seq)) + SumLen(Tail(seq))

IsOk(c) == c.outcome = "ok"
AllCropsOk == \A i \in 1..Len(crops) : IsOk(crops[i])
NoCropOk == \A i \in 1..Len(crops) : ~IsOk(crops[i])

RECURSIVE OkSegments(_)
OkSegments(log) ==
    IF log = <<>> THEN <<>>
    ELSE IF IsOk(Head(log)) THEN <<Head(log).seg>> \o OkSegments(Tail(log))
         ELSE OkSegments(Tail(log))

\* The ranges between the recorded gaps, in order: [0, first gap), the
\* non-empty ranges between consecutive gaps, and the range after the last.
RECURSIVE RangesFrom(_, _)
RangesFrom(from, i) ==
    IF i > Len(gap_positions)
      THEN IF from < total_length THEN <<<<from, total_length>>>> ELSE <<>>
      ELSE (IF from < gap_positions[i].gap_start
              THEN <<<<from, gap_positions[i].gap_start>>>> ELSE <<>>)
           \o RangesFrom(gap_positions[i].gap_end, i + 1)
ExpectedRanges == RangesFrom(0, 1)

CropRanges == [i \in 1..Len(crops) |-> <<SegStart(crops[i].seg), SegEnd(crops[i].seg)>>]

\* Unit cells [c, c+1) of [0, total_length) and what covers them.
Cells == 0..(total_length - 1)
SegCovers(i, c) == SegStart(segments_out[i]) <= c /\ c < SegEnd(segments_out[i])
GapCovers(i, c) == gap_positions[i].gap_start <= c /\ c < gap_positions[i].gap_end
Cover(c) == {<<"seg", i>> : i \in {j \in 1..Len(segments_out) : SegCovers(j, c)}}
            \cup {<<"gap", i>> : i \in {j \in 1..Len(gap_positions) : GapCovers(j, c)}}

SegmentsAscending ==
    \A i, j \in 1..Len(segments_out) :
        i < j => SegEnd(segments_out[i]) <= SegStart(segments_out[j])
SegmentsAvoidGaps ==
    \A i \in 1..Len(segments_out), j \in 1..Len(gap_positions) :
        \/ SegEnd(segments_out[i]) <= gap_positions[j].gap_start
        \/ gap_positions[j].gap_end <= SegStart(segments_out[i])
GapsDisjoint ==
    \A i \in 1..(Len(gap_positions) - 1) :
        gap_positions[i].gap_end <= gap_positions[i + 1].gap_start
GapsAscending ==
    \A i \in 1..(Len(gap_positions) - 1) :
        gap_positions[i].gap_start < gap_positions[i + 1].gap_start

----------------------------------------------------------------------------
\* C1: for a path with at least one primitive the returned list is never
\* empty, whichever crops fail or come back empty; when no crop produced a
\* segment the returned list is exactly [path].
C1_NeverEmpty ==
    (Done /\ path_len > 0) =>
        /\ result # <<>>
        /\ (NoCropOk => result = <<PathItem>>)

\* A call in which gaps were recorded, crops were attempted and none of them
\* produced a segment.
C1_Witness ==
    /\ Done /\ GapsRecorded /\ Len(crops) >= 2 /\ NoCropOk
    /\ result = <<PathItem>>

\* C2 as amended: in the periodic regime the number of recorded gaps is the
\* number of positive multiples of gap_spacing strictly below total_length,
\* ceil(total_length / gap_spacing) - 1.
C2_GapCount ==
    (Done /\ total_length >= gap_spacing) =>
        Len(gap_positions) = ((total_length + gap_spacing - 1) \div gap_spacing) - 1

\* A path whose length is twice gap_spacing gets one gap.
C2_Witness ==
    /\ Done /\ total_length = 2 * gap_spacing
    /\ Len(gap_positions) = 1

\* C2 as stated: in the periodic regime the number of recorded gaps is
\* floor(total_length / gap_spacing).
C2_Original ==
    (Done /\ total_length >= gap_spacing) =>
        Len(gap_positions) = total_length \div gap_spacing

\* C3 as amended: in every call in which gaps are recorded the emitted
\* segments are in ascending order, overlap neither each other nor a gap,
\* and - when every attempted crop produced a segment - segments and gaps
\* together leave no part of [0, total_length] uncovered; no two gaps
\* overlap when gap_length <= gap_spacing.
C3_Tiling ==
    (Done /\ GapsRecorded) =>
        /\ SegmentsAscending
        /\ SegmentsAvoidGaps
        /\ (AllCropsOk => \A c \in Cells : Cover(c) # {})
        /\ (gap_length <= gap_spacing => GapsDisjoint)
        /\ ((AllCropsOk /\ gap_length <= gap_spacing) =>
                \A c \in Cells : Cardinality(Cover(c)) = 1)

\* A call with two gaps and three emitted segments.
C3_Witness ==
    /\ Done /\ Len(gap_positions) >= 2 /\ gap_length < gap_spacing
    /\ AllCropsOk /\ Len(segments_out) = Len(gap_positions) + 1
    /\ \A c \in Cells : Cardinality(Cover(c)) = 1

\* C3 as stated: in every call in which gaps are recorded, the emitted
\* segments, in order, and the recorded gaps exactly tile [0, total_length].
C3_Original ==
    (Done /\ GapsRecorded) =>
        /\ SegmentsAscending
        /\ \A c \in Cells : Cardinality(Cover(c)) = 1

\* C4 as amended: for 0 < gap_length < total_length < gap_spacing exactly
\* one gap of length gap_length, centered on the path, is recorded and at
\* most 2 items are returned; when every attempted crop produced a segment
\* the returned segments' arc lengths sum to total_length - gap_length.
C4_Centered ==
    (Done /\ 0 < gap_length /\ gap_length < total_length /\ total_length < gap_spacing) =>
        /\ Len(gap_positions) = 1
        /\ gap_positions[1].gap_end - gap_positions[1].gap_start = gap_length
        /\ gap_positions[1].gap_start + gap_positions[1].gap_end = total_length
        /\ Len(result) <= 2
        /\ (AllCropsOk => /\ result = segments_out
                          /\ SumLen(result) = total_length - gap_length)

\* A short path split into two equal segments around its centered gap.
C4_Witness ==
    /\ Done /\ gap_length < total_length /\ total_length < gap_spacing
    /\ AllCropsOk /\ Len(result) = 2
    /\ ArcLen(result[1]) = ArcLen(result[2])
    /\ SumLen(result) = total_length - gap_length

\* C4 as stated: for 0 < gap_length < total_length < gap_spacing one
\* centered gap is placed and at most 2 segments are returned whose arc
\* lengths sum to total_length - gap_length.
C4_Original ==
    (Done /\ 0 < gap_length /\ gap_length < total_length /\ total_length < gap_spacing) =>
        /\ Len(gap_positions) = 1
        /\ gap_positions[1].gap_start + gap_positions[1].gap_end = total_length
        /\ Len(result) <= 2
        /\ SumLen(result) = total_length - gap_length

\* C5: a crop failure is local: no exception leaves the function, every
\* range between the recorded gaps and the trailing range is still
\* attempted, and the returned list is exactly the segments of the crops
\* that produced one, in order, or [path] if there is none.
C5_FailureLocal ==
    /\ pc # "raised"
    /\ (Done /\ GapsRecorded) =>
          /\ CropRanges = ExpectedRanges
          /\ result = IF NoCropOk THEN <<PathItem>> ELSE OkSegments(crops)

\* A call in which a crop failed and later crops still produced segments.
C5_Witness ==
    /\ Done /\ Len(crops) >= 3
    /\ crops[1].outcome = "fail"
    /\ crops[2].outcome = "ok"
    /\ crops[Len(crops)].outcome = "ok"
    /\ Len(result) = Len(crops) - 1

\* C6: when no gap is recorded for a path with at least one primitive the
\* returned list is exactly [path] and no crop is attempted; no gap is
\* recorded when total_length = gap_spacing, nor when total_length <
\* gap_spacing and the centered gap would span the whole path.
C6_NoGaps ==
    Done =>
        /\ (path_len > 0 /\ ~GapsRecorded) => (result = <<PathItem>> /\ crops = <<>>)
        /\ total_length = gap_spacing => ~GapsRecorded
        /\ (total_length < gap_spacing /\ gap_length >= total_length) => ~GapsRecorded

\* A path exactly gap_spacing long is returned unchanged.
C6_Witness ==
    /\ Done /\ total_length = gap_spacing
    /\ ~GapsRecorded /\ result = <<PathItem>> /\ crops = <<>>

\* C7 as amended: the recorded gaps are in strictly ascending order of
\* start; no two recorded gaps overlap when gap_length <= gap_spacing, and
\* every two consecutive recorded gaps overlap when gap_length > gap_spacing.
C7_GapOrder ==
    /\ GapsAscending
    /\ (gap_length <= gap_spacing => GapsDisjoint)
    /\ (gap_length > gap_spacing =>
            \A i \in 1..(Len(gap_positions) - 1) :
                gap_positions[i].gap_end > gap_positions[i + 1].gap_start)

\* Three abutting gaps: gap_length = gap_spacing.
C7_Witness ==
    /\ Done /\ Len(gap_positions) >= 3 /\ gap_length = gap_spacing
    /\ GapsDisjoint

\* C7 as stated: for every positive gap_length and gap_spacing the recorded
\* gaps are strictly ascending in start and each gap ends no later than the
\* next one starts.
C7_Original ==
    /\ GapsAscending
    /\ GapsDisjoint

\* C8: every recorded gap satisfies 0 <= gap_start < gap_end <= total_length.
C8_GapBounds ==
    \A i \in 1..Len(gap_positions) :
        /\ 0 <= gap_positions[i].gap_start
        /\ gap_positions[i].gap_start < gap_positions[i].gap_end
        /\ gap_positions[i].gap_end <= total_length

\* A periodic gap whose end was clipped to the end of the path.
C8_Witness ==
    /\ total_length >= gap_spacing
    /\ \E i \in 1..Len(gap_positions) :
          /\ gap_positions[i].gap_start + gap_length > total_length
          /\ gap_positions[i].gap_end = total_length

\* C9: every attempted crop is on a range 0 <= t_start < t_end <= 1; when the
\* last gap ends at total_length no trailing crop is attempted, and when two
\* consecutive gaps overlap no crop is attempted between them.
C9_CropRanges ==
    /\ \A i \in 1..Len(crops) :
          /\ ~FLess(crops[i].seg.t0, Zero)
          /\ FLess(crops[i].seg.t0, crops[i].seg.t1)
          /\ ~FLess(One, crops[i].seg.t1)
    /\ (Done /\ GapsRecorded) =>
          /\ gap_positions[Len(gap_positions)].gap_end = total_length =>
                \A i \in 1..Len(crops) : SegEnd(crops[i].seg) < total_length
          /\ \A j \in 1..(Len(gap_positions) - 1) :
                gap_positions[j].gap_end > gap_positions[j + 1].gap_start =>
                    \A i \in 1..Len(crops) :
                        SegEnd(crops[i].seg) # gap_positions[j + 1].gap_start

\* Overlapping gaps, the last one clipped to the end of the path: only the
\* leading crop is attempted.
C9_Witness ==
    /\ Done /\ Len(gap_positions) >= 2 /\ gap_length > gap_spacing
    /\ gap_positions[Len(gap_positions)].gap_end = total_length
    /\ Len(crops) = 1 /\ IsOk(crops[1])

\* C10: the first recorded gap starts after 0, so the leading range
\* [0, first gap_start) is attempted whenever a gap is recorded; when every
\* attempted crop produced a segment the returned list is the list of
\* segments and does not contain the original path.
C10_LeadingSegment ==
    GapsRecorded =>
        /\ gap_positions[1].gap_start > 0
        /\ Done =>
              /\ crops # <<>>
              /\ SegStart(crops[1].seg) = 0
              /\ SegEnd(crops[1].seg) = gap_positions[1].gap_start
              /\ AllCropsOk =>
                    /\ result = segments_out
                    /\ \A i \in 1..Len(result) : result[i] # PathItem

\* A gapped path returned as its leading and trailing segments.
C10_Witness ==
    /\ Done /\ GapsRecorded /\ AllCropsOk
    /\ Len(result) >= 2
    /\ SegStart(result[1]) = 0
    /\ result[1].kind = "seg"

====
